---- MODULE Spec2Model ----
(***************************************************************************)
(* Model of src/utilities.py: preprocess_data (feature engineering,        *)
(* sampling-frequency inference, chronological split, min-max scaling,     *)
(* missing-value postcondition) and evaluate_models (the harness that      *)
(* calls it inside try/except and then runs a roster of six models).       *)
(*                                                                         *)
(* Numbers.  The code works in float64; the model works in exact           *)
(* fixed-point integers.  A timestamp is a number of ticks since           *)
(* 2018-01-01T00:00 (a Monday), TicksPerSecond ticks to the second, so     *)
(* sub-second differences exist.  A sine or cosine is an integer number    *)
(* of 1/SinScale.  A numeric cell of a feature table is <<>> for NaN and   *)
(* <<n>> for the value n in the unit of its column (ColumnUnit); a cell    *)
(* of a scaled table is <<>> or the exact fraction <<num, den>>.           *)
(*                                                                         *)
(* The input table carries the default RangeIndex 0..n-1 as row labels.    *)
(***************************************************************************)
EXTENDS Integers, Sequences, FiniteSets, TLC

\* ------------------------------------------------------------ bounds
MaxRows == 3
MaxTestDays == 2
TicksPerSecond == 2

\* --------------------------------------------------- program constants
SecondsPerDay == 60 * 60 * 24
HarnessTestDays == 183
SinScale == 1000

TicksPerDay == SecondsPerDay * TicksPerSecond

NaN == <<>>
NullStr == "<NA>"
IsNull(c) == c = NaN

\* ------------------------------------------------------- small helpers
Min2(a, b) == IF a < b THEN a ELSE b
Max2(a, b) == IF a > b THEN a ELSE b

SetMax(S) == CHOOSE x \in S : \A y \in S : y <= x
SetMin(S) == CHOOSE x \in S : \A y \in S : x <= y

Range(s) == {s[i] : i \in DOMAIN s}

\* Python's int(): truncation toward zero of the rational num/den, den > 0.
Trunc(num, den) == IF num >= 0 THEN num \div den ELSE -((-num) \div den)

\* Python's round(): the nearest integer, ties to even, of num/den >= 0.
RoundHalfEven(num, den) ==
    LET q == num \div den
        r == num % den
    IN  IF 2 * r < den THEN q
        ELSE IF 2 * r > den THEN q + 1
        ELSE IF q % 2 = 0 THEN q ELSE q + 1

\* Python slice bounds: seq[:k] keeps positions below SliceBound(k, n),
\* seq[k:] keeps the rest; a negative k counts from the end.
SliceBound(k, n) == IF k < 0 THEN Max2(k + n, 0) ELSE Min2(k, n)

Head_(s, k) == SubSeq(s, 1, SliceBound(k, Len(s)))
Tail_(s, k) == SubSeq(s, SliceBound(k, Len(s)) + 1, Len(s))

\* ------------------------------------------------------------ calendar
\* pandas .dt accessors on a datetime <<"datetime64", ticks>>, for the
\* year 2018.
DayIndex(ticks) == ticks \div TicksPerDay
MonthEnds == <<31, 59, 90, 120, 151, 181, 212, 243, 273, 304, 334, 365>>
dayofyear(ticks) == DayIndex(ticks) + 1
month(ticks) == CHOOSE m \in 1..12 :
                    /\ dayofyear(ticks) <= MonthEnds[m]
                    /\ \A k \in 1..(m - 1) : dayofyear(ticks) > MonthEnds[k]
dayofweek(ticks) == DayIndex(ticks) % 7

\* pd.DatetimeIndex: parses a string timestamp, keeps a datetime.
ToDatetime(v) == <<"datetime64", v[2]>>

\* ---------------------------------------------------------- sine/cosine
\* sin(pi * a / b) for 0 <= a <= b, in 1/SinScale (Bhaskara's rational
\* approximation, absolute error below 0.002).
SinHalfTurn(a, b) == (16 * a * (b - a) * SinScale) \div (5 * b * b - 4 * a * (b - a))

\* np.sin(2 * np.pi * v / m): NaN for 0 / 0.
np_sin(v, m) ==
    IF m = 0 THEN NaN
    ELSE IF 2 * v <= m THEN <<SinHalfTurn(2 * v, m)>>
    ELSE <<-SinHalfTurn(2 * v - m, m)>>

\* np.cos(2 * np.pi * v / m) = sin(pi * (4v + m) / (2m)): NaN for 0 / 0.
np_cos(v, m) ==
    IF m = 0 THEN NaN
    ELSE LET a == 4 * v + m
             b == 2 * m
         IN  IF a <= b THEN <<SinHalfTurn(a, b)>>
             ELSE IF a <= 2 * b THEN <<-SinHalfTurn(a - b, b)>>
             ELSE <<SinHalfTurn(a - 2 * b, b)>>

\* ---------------------------------------------------------- dataframes
\* A dataframe: columns (ordered names), index (row labels), data (one
\* function from column name to cell per row).
HasCol(t, c) == c \in Range(t.columns)

Column(t, c) == [i \in 1..Len(t.data) |-> t.data[i][c]]

\* df[c] = vals: overwrites the column where it stands, or appends it.
SetColumn(t, c, vals) ==
    [t EXCEPT !.columns = IF HasCol(t, c) THEN @ ELSE Append(@, c),
              !.data = [i \in 1..Len(t.data) |->
                          [k \in (DOMAIN t.data[i]) \cup {c} |->
                              IF k = c THEN vals[i] ELSE t.data[i][k]]]]

\* df.drop(columns = cs), every name of cs being a column.
DropColumns(t, cs) ==
    [t EXCEPT !.columns = SelectSeq(@, LAMBDA c : c \notin cs),
              !.data = [i \in 1..Len(t.data) |->
                          [k \in (DOMAIN t.data[i]) \ cs |-> t.data[i][k]]]]

\* The rows at the given positions (an increasing sequence), labels kept.
TakeRows(t, pos) ==
    [t EXCEPT !.index = [i \in 1..Len(pos) |-> t.index[pos[i]]],
              !.data = [i \in 1..Len(pos) |-> t.data[pos[i]]]]

EmptyFrame == [columns |-> <<>>, index |-> <<>>, data |-> <<>>]

\* ------------------------------------------- preprocess_data, lines 55-77
cyc_features == <<"yday", "month", "wday", "num_time">>
SinName(f) == f \o "_sin"
CosName(f) == f \o "_cos"
SinCosColumns == {SinName(cyc_features[i]) : i \in 1..4}
                   \cup {CosName(cyc_features[i]) : i \in 1..4}

\* The unit of a feature column's fixed-point cells.
ColumnUnit(c) == IF c = "timestamp" THEN TicksPerSecond
                 ELSE IF c \in SinCosColumns THEN SinScale
                 ELSE 1

\* Line 56: fillna('neither').
fillna(v) == IF v = NullStr THEN "neither" ELSE v

\* Lines 56-64: the fill, the datetime conversion and the three calendar
\* columns, written into the caller's dataframe.
TimeFeatures(df) ==
    LET d1 == SetColumn(df, "sun_rise_set",
                        [i \in 1..Len(df.data) |-> fillna(df.data[i]["sun_rise_set"])])
        d2 == SetColumn(d1, "timestamp",
                        [i \in 1..Len(df.data) |-> ToDatetime(df.data[i]["timestamp"])])
        ts == [i \in 1..Len(df.data) |-> d2.data[i]["timestamp"][2]]
        d3 == SetColumn(d2, "yday", [i \in 1..Len(ts) |-> dayofyear(ts[i])])
        d4 == SetColumn(d3, "month", [i \in 1..Len(ts) |-> month(ts[i])])
    IN  SetColumn(d4, "wday", [i \in 1..Len(ts) |-> dayofweek(ts[i])])

\* df[feature].max(): the divisor of lines 70-71 (no row: no cell to fill).
ColumnMax(t, f) == IF Len(t.data) = 0 THEN 0 ELSE SetMax(Range(Column(t, f)))

\* Lines 70-71 for one feature: its sine and cosine columns, each value
\* divided by the maximum over the whole table.
CyclicalPair(t, f) ==
    LET m == ColumnMax(t, f)
        s == SetColumn(t, SinName(f), [i \in 1..Len(t.data) |-> np_sin(t.data[i][f], m)])
    IN  SetColumn(s, CosName(f), [i \in 1..Len(t.data) |-> np_cos(t.data[i][f], m)])

\* Lines 69-71: the loop over cyc_features from position k on; it stops
\* with a KeyError at the first feature that is no column.
RECURSIVE CyclicalLoop(_, _)
CyclicalLoop(t, k) ==
    IF k > Len(cyc_features) THEN [df |-> t, err |-> "none"]
    ELSE IF ~HasCol(t, cyc_features[k]) THEN [df |-> t, err |-> "KeyError"]
    ELSE CyclicalLoop(CyclicalPair(t, cyc_features[k]), k + 1)

\* Line 74 returns a new dataframe: the caller's keeps every column.
CallerAfterDropInPlace(before, dropped) == dropped
CallerAfterDrop(before, dropped) == before

\* ------------------------------------------- preprocess_data, lines 76-96
\* Line 77: seconds since the earliest timestamp of the table.
RelativeSeconds(t) ==
    LET ts == [i \in 1..Len(t.data) |-> t.data[i]["timestamp"][2]]
        lo == IF Len(ts) = 0 THEN 0 ELSE SetMin(Range(ts))
    IN  SetColumn(t, "timestamp", [i \in 1..Len(ts) |-> <<ts[i] - lo>>])

\* Line 82: LabelEncoder numbers the observed classes in sorted order.
ClassOrder == <<"neither", "rise", "set", "weekday", "weekend">>
ClassRank(v) == CHOOSE k \in 1..Len(ClassOrder) : ClassOrder[k] = v
LabelCode(v, observed) == Cardinality({w \in observed : ClassRank(w) < ClassRank(v)})
LabelEncode(t, c) ==
    LET observed == Range(Column(t, c))
    IN  SetColumn(t, c, [i \in 1..Len(t.data) |-> <<LabelCode(t.data[i][c], observed)>>])

\* Line 85: pd.get_dummies replaces the one text column left by an
\* indicator column per observed category, in sorted order, at the end.
DummyName(c, v) == c \o "_" \o v
RECURSIVE AddDummies(_, _, _, _)
AddDummies(t, c, observed, k) ==
    IF k > Len(ClassOrder) THEN t
    ELSE IF ClassOrder[k] \notin observed THEN AddDummies(t, c, observed, k + 1)
    ELSE AddDummies(SetColumn(t, DummyName(c, ClassOrder[k]),
                              [i \in 1..Len(t.data) |->
                                  IF t.data[i][c] = ClassOrder[k] THEN <<1>> ELSE <<0>>]),
                    c, observed, k + 1)
get_dummies(t) ==
    DropColumns(AddDummies(t, "sun_rise_set", Range(Column(t, "sun_rise_set")), 1),
                {"sun_rise_set"})

\* Line 88: the rows kept by df[df['elec_cons'] > 0].
KeepsRowLoose(v) == v >= 0
KeepsRow(v) == v > 0
FilterPositive(t) ==
    TakeRows(t, SelectSeq([i \in 1..Len(t.data) |-> i],
                          LAMBDA i : KeepsRow(t.data[i]["elec_cons"])))

columns_remove == {"elec_cons", "elec_cons_imp", "pow_dem", "anom_flag",
                   "anom_missed_flag", "cleaned_energy", "forecast"}

\* Lines 55-96.  caller is the caller's dataframe as the call leaves it,
\* local the feature table, targets the target vector.
Prepare(df) ==
    LET fail(c, ln) == [err |-> "KeyError", line |-> ln, caller |-> c,
                        local |-> EmptyFrame, targets |-> <<>>]
    IN
    IF ~HasCol(df, "sun_rise_set") THEN fail(df, 56)
    ELSE IF ~HasCol(df, "timestamp")
    THEN fail(SetColumn(df, "sun_rise_set",
                        [i \in 1..Len(df.data) |-> fillna(df.data[i]["sun_rise_set"])]), 59)
    ELSE
    LET cyc == CyclicalLoop(TimeFeatures(df), 1)
    IN
    IF cyc.err # "none" THEN fail(cyc.df, 70)
    ELSE IF ~HasCol(cyc.df, "day_of_week") THEN fail(cyc.df, 74)
    ELSE
    LET dropped == DropColumns(cyc.df, {"yday", "month", "wday", "num_time", "day_of_week"})
        caller == CallerAfterDrop(cyc.df, dropped)
        rel == RelativeSeconds(dropped)
    IN
    IF ~HasCol(rel, "week_day_end") THEN fail(caller, 82)
    ELSE
    LET dummies == get_dummies(LabelEncode(rel, "week_day_end"))
    IN
    IF ~HasCol(dummies, "elec_cons") THEN fail(caller, 88)
    ELSE
    LET kept == FilterPositive(dummies)
    IN  [err |-> "none",
         line |-> 96,
         caller |-> caller,
         local |-> DropColumns(kept, columns_remove \cap Range(kept.columns)),
         targets |-> Column(kept, "elec_cons")]

\* ------------------------------------------ preprocess_data, lines 98-106
HasLabel(t, l) == l \in Range(t.index)
\* df['timestamp'][l]: the cell of the row labelled l, in ticks.
TimestampAt(t, l) == t.data[CHOOSE i \in 1..Len(t.index) : t.index[i] = l]["timestamp"][1]

\* Line 106.
NextIndexStuck(i) == i
NextIndex(i) == i + 1

\* Line 102: frequency < 1 (second).
LoopContinues(freq) == freq < TicksPerSecond

\* Lines 103-106, one iteration: a KeyError when either label is no row
\* of the filtered table.
ScanBody(t, idx) ==
    IF HasLabel(t, idx + 1) /\ HasLabel(t, idx)
    THEN [err |-> "none",
          frequency |-> TimestampAt(t, idx + 1) - TimestampAt(t, idx),
          index |-> NextIndex(idx)]
    ELSE [err |-> "KeyError", frequency |-> 0, index |-> idx]

\* ----------------------------------------- preprocess_data, lines 108-118
\* Lines 109-112: int(len(df) - test_days * 86400 / frequency), the
\* frequency in ticks.
TestStartRounded(n, freq, days) == n - RoundHalfEven(days * TicksPerDay, freq)
TestStart(n, freq, days) == Trunc(n * freq - days * TicksPerDay, freq)

\* df.iloc[:k] and df.iloc[k:].
ilocHead(t, k) == [t EXCEPT !.index = Head_(@, k), !.data = Head_(@, k)]
ilocTail(t, k) == [t EXCEPT !.index = Tail_(@, k), !.data = Tail_(@, k)]

\* ----------------------------------------- preprocess_data, lines 121-136
NonNull(t, c) == {t.data[i][c][1] : i \in {j \in 1..Len(t.data) : ~IsNull(t.data[j][c])}}

\* MinMaxScaler.fit, one column: <<data_min_, data_max_>> over the cells
\* that are not NaN, NaN when there is none.
FitColumnFirstRow(t, c) ==
    IF NonNull(t, c) = {} \/ IsNull(t.data[1][c]) THEN NaN
    ELSE <<t.data[1][c][1], SetMax(NonNull(t, c))>>
FitColumn(t, c) ==
    IF NonNull(t, c) = {} THEN NaN ELSE <<SetMin(NonNull(t, c)), SetMax(NonNull(t, c))>>

fit(t) == [c \in Range(t.columns) |-> FitColumn(t, c)]

\* MinMaxScaler.transform, one cell: (x - min) / (max - min), a zero range
\* being replaced by 1.
TransformCell(x, p, unit) ==
    IF IsNull(x) \/ IsNull(p) THEN NaN
    ELSE IF p[2] = p[1] THEN <<x[1] - p[1], unit>>
    ELSE <<x[1] - p[1], p[2] - p[1]>>

\* Lines 129-136: the transform and the new dataframe (same columns, a
\* fresh RangeIndex).
transform(t, params) ==
    [columns |-> t.columns,
     index |-> [i \in 1..Len(t.data) |-> i - 1],
     data |-> [i \in 1..Len(t.data) |->
                 [k \in DOMAIN t.data[i] |->
                     IF k \in Range(t.columns)
                     THEN TransformCell(t.data[i][k], params[k], ColumnUnit(k))
                     ELSE t.data[i][k]]]]

\* ----------------------------------------- preprocess_data, lines 138-142
HasNull(t) == \E i \in 1..Len(t.data) : \E c \in Range(t.columns) : IsNull(t.data[i][c])

PostconditionTrainOnly(train, test) == ~HasNull(train)
Postcondition(train, test) == ~HasNull(train) /\ ~HasNull(test)

Raised(error, line) ==
    [kind |-> "raised", error |-> error, line |-> line,
     train |-> EmptyFrame, train_targets |-> <<>>,
     test |-> EmptyFrame, test_targets |-> <<>>]

NoScaler == [c \in {} |-> NaN]

\* Lines 108-142: [test_start, scaler, result].
SplitScale(t, tgts, freq, days, sc) ==
    LET ts == TestStart(Len(t.data), freq, days)
        train == ilocHead(t, ts)
        test == ilocTail(t, ts)
        params == IF sc THEN fit(train) ELSE NoScaler
        outTrain == IF sc THEN transform(train, params) ELSE train
        outTest == IF sc THEN transform(test, params) ELSE test
    IN  IF sc /\ Len(train.data) = 0
        THEN [test_start |-> ts, scaler |-> NoScaler, result |-> Raised("ValueError", 126)]
        ELSE IF sc /\ Len(test.data) = 0
        THEN [test_start |-> ts, scaler |-> params, result |-> Raised("ValueError", 130)]
        ELSE IF ~Postcondition(outTrain, outTest)
        THEN [test_start |-> ts, scaler |-> params,
              result |-> Raised("AssertionError", IF HasNull(outTrain) THEN 139 ELSE 140)]
        ELSE [test_start |-> ts, scaler |-> params,
              result |-> [kind |-> "returned", error |-> "none", line |-> 142,
                          train |-> outTrain, train_targets |-> Head_(tgts, ts),
                          test |-> outTest, test_targets |-> Tail_(tgts, ts)]]

\* -------------------------------------------------- evaluate_models
\* Line 169: except Exception catches every error preprocess_data raises.
CatchesKeyErrorOnly(error) == error = "KeyError"
Catches(error) == error \in {"KeyError", "ValueError", "AssertionError"}

\* Lines 173-202: the roster, in call order.
Roster == <<"elasticnet", "knn", "svm", "rf", "et", "adaboost">>

\* implement_model: a result record, or the model's own exception.
ImplementModelOutcomes == {"record", "raise"}

\* ------------------------------------------------------------- state
VARIABLES
    input,        \* the dataframe as first handed over (never written)
    df,           \* the caller's dataframe object, which the calls write
    caller,       \* "direct": preprocess_data called; "evaluate": evaluate_models
    test_days,    \* argument of preprocess_data
    scale,        \* argument of preprocess_data
    pc,           \* position of the running call
    calls,        \* number of preprocess_data calls started on df
    local,        \* the local df after line 96
    targets,      \* line 91
    index,        \* line 98, 106
    frequency,    \* line 99, 103, in ticks
    test_start,   \* line 112
    scaler,       \* data_min_/data_max_ per column, line 126
    result,       \* what the last preprocess_data call returned or raised
    prev,         \* what the call before it returned or raised
    results,      \* evaluate_models: the model names with a result, line 205
    harness       \* evaluate_models: "running", "returned_none",
                  \*   "returned_table", "propagated"

vars == <<input, df, caller, test_days, scale, pc, calls, local, targets, index,
          frequency, test_start, scaler, result, prev, results, harness>>

NoResult == [kind |-> "none", error |-> "none", line |-> 0,
             train |-> EmptyFrame, train_targets |-> <<>>,
             test |-> EmptyFrame, test_targets |-> <<>>]

\* ------------------------------------------------------------ inputs
InputColumns == <<"timestamp", "elec_cons", "num_time", "temp", "sun_rise_set",
                  "week_day_end", "day_of_week">>
RequiredColumns == {"timestamp", "elec_cons", "num_time", "sun_rise_set",
                    "week_day_end", "day_of_week"}
DayNames == <<"Mon", "Tue", "Wed", "Thu", "Fri", "Sat", "Sun">>

InputRow(label, ticks, elec, num, temp, sun) ==
    [origin |-> label,
     timestamp |-> <<"str", ticks>>,
     elec_cons |-> elec,
     num_time |-> num,
     temp |-> temp,
     sun_rise_set |-> sun,
     week_day_end |-> IF dayofweek(ticks) >= 5 THEN "weekend" ELSE "weekday",
     day_of_week |-> DayNames[dayofweek(ticks) + 1]]

Frame(rows) == [columns |-> InputColumns,
                index |-> [i \in 1..Len(rows) |-> i - 1],
                data |-> rows]

\* Timestamps: equal ones, one tick apart, a day apart, 100 days apart.
TsValues == {0, 1, TicksPerDay, 100 * TicksPerDay}
SortedTs(n) == {s \in [1..n -> TsValues] : \A i \in 1..(n - 1) : s[i] <= s[i + 1]}

\* Tables that vary the timestamps and which rows have a positive target
\* (row i has elec_cons 0 or i).
TimeTables ==
    UNION {{Frame([i \in 1..n |-> InputRow(i - 1, ts[i], el[i] * i, 1, <<1>>, NullStr)]) :
               ts \in SortedTs(n), el \in [1..n -> {0, 1}]} : n \in 0..MaxRows}

\* Tables that vary the features: one row a day from Friday 2018-01-05,
\* each row with one of these <<num_time, temp, sun_rise_set>>.
FeatureValues == {<<1, (<<1>>), NullStr>>, <<2, (<<2>>), "rise">>, <<0, (<<1>>), NullStr>>,
                  <<1, NaN, NullStr>>, <<0, NaN, "rise">>}
FeatureTables ==
    {Frame([i \in 1..MaxRows |->
              InputRow(i - 1, (i + 3) * TicksPerDay, i, f[i][1], f[i][2], f[i][3])]) :
        f \in [1..MaxRows -> FeatureValues]}

\* Tables that vary the features of rows 100 days apart.
SparseTables ==
    {Frame([i \in 1..MaxRows |->
              InputRow(i - 1, 100 * (i - 1) * TicksPerDay, i, f[i][1], f[i][2], f[i][3])]) :
        f \in [1..MaxRows -> FeatureValues]}

\* Tables with a required column missing.
WellFormed == Frame([i \in 1..MaxRows |->
                        InputRow(i - 1, 100 * (i - 1) * TicksPerDay, i, 1, <<1>>, NullStr)])
Malformed == {DropColumns(WellFormed, {c}) : c \in RequiredColumns}

Init ==
    /\ \/ /\ input \in TimeTables \cup FeatureTables \cup Malformed
          /\ caller = "direct"
          /\ test_days \in 1..MaxTestDays
          /\ scale \in BOOLEAN
       \/ /\ input \in TimeTables \cup Malformed \cup SparseTables
          /\ caller = "evaluate"
          /\ test_days = HarnessTestDays
          /\ scale = TRUE
    /\ df = input
    /\ pc = "start"
    /\ calls = 1
    /\ local = EmptyFrame
    /\ targets = <<>>
    /\ index = 0
    /\ frequency = 0
    /\ test_start = 0
    /\ scaler = NoScaler
    /\ result = NoResult
    /\ prev = NoResult
    /\ results = <<>>
    /\ harness = IF caller = "evaluate" THEN "running" ELSE "unused"

\* ----------------------------------------------------------- actions
\* preprocess_data, lines 55-99.
PrepareStep ==
    /\ pc = "start"
    /\ LET p == Prepare(df)
       IN  /\ df' = p.caller
           /\ local' = p.local
           /\ targets' = p.targets
           /\ IF p.err = "none"
              THEN pc' = "scan" /\ result' = NoResult
              ELSE pc' = "raised" /\ result' = Raised(p.err, p.line)
    /\ index' = 0
    /\ frequency' = 0
    /\ test_start' = 0
    /\ scaler' = NoScaler
    /\ UNCHANGED <<input, caller, test_days, scale, calls, prev, results, harness>>

\* preprocess_data, lines 102-106: one iteration of the while loop.
ScanStep ==
    /\ pc = "scan"
    /\ LoopContinues(frequency)
    /\ LET b == ScanBody(local, index)
       IN  /\ frequency' = b.frequency
           /\ index' = b.index
           /\ IF b.err = "none"
              THEN pc' = "scan" /\ result' = result
              ELSE pc' = "raised" /\ result' = Raised(b.err, 103)
    /\ UNCHANGED <<input, df, caller, test_days, scale, calls, local, targets,
                   test_start, scaler, prev, results, harness>>

\* preprocess_data, lines 108-142.
SplitStep ==
    /\ pc = "scan"
    /\ ~LoopContinues(frequency)
    /\ LET r == SplitScale(local, targets, frequency, test_days, scale)
       IN  /\ test_start' = r.test_start
           /\ scaler' = r.scaler
           /\ result' = r.result
           /\ pc' = r.result.kind
    /\ UNCHANGED <<input, df, caller, test_days, scale, calls, local, targets,
                   index, frequency, prev, results, harness>>

\* The caller calls preprocess_data again on the same dataframe object,
\* with the same arguments.
CallAgain ==
    /\ caller = "direct"
    /\ pc \in {"returned", "raised"}
    /\ calls = 1
    /\ calls' = 2
    /\ prev' = result
    /\ result' = NoResult
    /\ pc' = "start"
    /\ UNCHANGED <<input, df, caller, test_days, scale, local, targets, index,
                   frequency, test_start, scaler, results, harness>>

\* evaluate_models, lines 169-171: the except branch.
EvalExcept ==
    /\ caller = "evaluate"
    /\ pc = "raised"
    /\ harness = "running"
    /\ harness' = IF Catches(result.error) THEN "returned_none" ELSE "propagated"
    /\ pc' = "harness_done"
    /\ UNCHANGED <<input, df, test_days, scale, caller, calls, local, targets, index,
                   frequency, test_start, scaler, result, prev, results>>

\* evaluate_models, lines 173-202: the next model of the roster.
EvalModel ==
    /\ caller = "evaluate"
    /\ pc = "returned"
    /\ harness = "running"
    /\ Len(results) < Len(Roster)
    /\ \E outcome \in ImplementModelOutcomes :
          IF outcome = "record"
          THEN /\ results' = Append(results, Roster[Len(results) + 1])
               /\ UNCHANGED <<pc, harness>>
          ELSE /\ harness' = "propagated"
               /\ pc' = "harness_done"
               /\ UNCHANGED results
    /\ UNCHANGED <<input, df, test_days, scale, caller, calls, local, targets, index,
                   frequency, test_start, scaler, result, prev>>

\* evaluate_models, lines 204-214: the results table.
EvalReturn ==
    /\ caller = "evaluate"
    /\ pc = "returned"
    /\ harness = "running"
    /\ Len(results) = Len(Roster)
    /\ harness' = "returned_table"
    /\ pc' = "harness_done"
    /\ UNCHANGED <<input, df, test_days, scale, caller, calls, local, targets, index,
                   frequency, test_start, scaler, result, prev, results>>

Next ==
    \/ PrepareStep
    \/ ScanStep
    \/ SplitStep
    \/ CallAgain
    \/ EvalExcept
    \/ EvalModel
    \/ EvalReturn

Spec == Init /\ [][Next]_vars

\* The interpreter runs a started loop on: an enabled iteration is taken.
FairSpec == Spec /\ WF_vars(ScanStep)

\* ------------------------------------------- the call as one function
\* Lines 102-106 run to their end from (idx, freq).
RECURSIVE ScanLoop(_, _, _)
ScanLoop(t, idx, freq) ==
    IF ~LoopContinues(freq) THEN [err |-> "none", frequency |-> freq]
    ELSE LET b == ScanBody(t, idx)
         IN  IF b.err # "none" THEN [err |-> b.err, frequency |-> freq]
             ELSE ScanLoop(t, b.index, b.frequency)

\* preprocess_data(table, days, sc): [fitted, scaler, result].
preprocess_data(table, days, sc) ==
    LET p == Prepare(table)
    IN  IF p.err # "none"
        THEN [fitted |-> FALSE, scaler |-> NoScaler, result |-> Raised(p.err, p.line)]
        ELSE LET f == ScanLoop(p.local, 0, 0)
             IN  IF f.err # "none"
                 THEN [fitted |-> FALSE, scaler |-> NoScaler, result |-> Raised(f.err, 103)]
                 ELSE LET r == SplitScale(p.local, p.targets, f.frequency, days, sc)
                      IN  [fitted |-> sc /\ r.result.line > 126,
                           scaler |-> r.scaler, result |-> r.result]

\* ------------------------------------------------- notions of the claims
\* The running or last call has computed test_start (line 112).
SplitDone == result.kind # "none" /\ result.line >= 126
Returned == result.kind = "returned"

\* Number of rows left after dropping the rows with elec_cons <= 0.
n_rows == Len(local.data)

\* The input row a feature row comes from.
OriginRow(r) == input.data[r["origin"] + 1]
Origins(t) == [i \in 1..Len(t.data) |-> t.data[i]["origin"]]

\* Differences between consecutive relative-seconds timestamps of the
\* filtered table, by position, in ticks.
Delta(t, i) == t.data[i + 1]["timestamp"][1] - t.data[i]["timestamp"][1]
HasPositiveDiff(t) == \E i \in 1..(Len(t.data) - 1) : Delta(t, i) > 0
FirstPositiveDiff(t) ==
    Delta(t, SetMin({i \in 1..(Len(t.data) - 1) : Delta(t, i) > 0}))

\* A scaled cell lies in [0, 1].
InUnit(c) == ~IsNull(c) /\ 0 <= c[1] /\ c[1] <= c[2]
AllInUnit(t) == \A i \in 1..Len(t.data) : \A c \in Range(t.columns) : InUnit(t.data[i][c])

\* The input with the features of its row at position i replaced.
WithFeatures(table, i, f) ==
    [table EXCEPT !.data[i] = [k \in DOMAIN @ |->
        IF k = "num_time" THEN f[1]
        ELSE IF k = "temp" THEN f[2]
        ELSE IF k = "sun_rise_set" THEN f[3]
        ELSE @[k]]]

\* Sanity of the model: the steps and the one-function form agree.
StepsAgreeWithFunction ==
    (calls = 1 /\ result.kind # "none") =>
        LET r == preprocess_data(input, test_days, scale)
        IN  r.result = result /\ (SplitDone => r.scaler = scaler)

\* ------------------------------------------------------------ claims

\* C1 (as stated): whenever preprocess_data computes test_start for a
\* table with a positive timestamp difference and a positive test_days,
\* 0 < test_start < n_rows.
C1_SplitIndexInside ==
    SplitDone => (0 < test_start /\ test_start < n_rows)

\* C2 (as stated): with scale true, the fitted min/max per column are the
\* same for any two inputs that differ only in feature values of a row of
\* the testing partition.
C2_ScalerIgnoresTestRows ==
    (calls = 1 /\ Returned /\ scale) =>
        \A i \in 1..Len(input.data) : \A f \in FeatureValues :
            (i - 1) \in Range(Origins(result.test)) =>
                LET other == preprocess_data(WithFeatures(input, i, f), test_days, scale)
                IN  other.fitted => other.scaler = scaler

\* C3: every returned target is > 0, every returned feature row comes from
\* an input row with elec_cons > 0, and the i-th target is the elec_cons of
\* the i-th feature row, in both partitions.
C3_NoNonPositiveRows ==
    Returned =>
        /\ Len(result.train_targets) = Len(result.train.data)
        /\ Len(result.test_targets) = Len(result.test.data)
        /\ \A i \in 1..Len(result.train.data) :
              /\ result.train_targets[i] > 0
              /\ OriginRow(result.train.data[i])["elec_cons"] = result.train_targets[i]
        /\ \A i \in 1..Len(result.test.data) :
              /\ result.test_targets[i] > 0
              /\ OriginRow(result.test.data[i])["elec_cons"] = result.test_targets[i]

C3_Witness ==
    /\ Returned
    /\ \E i \in 1..Len(input.data) : input.data[i]["elec_cons"] <= 0
    /\ Len(result.train.data) > 0
    /\ Len(result.test.data) > 0

\* C4: when preprocess_data raises inside evaluate_models, evaluate_models
\* returns None (after reporting), propagates nothing and runs no model.
C4_HarnessAbsorbsFailure ==
    (caller = "evaluate" /\ result.kind = "raised") =>
        /\ results = <<>>
        /\ harness \in {"running", "returned_none"}
        /\ pc = "harness_done" => harness = "returned_none"

C4_Witness ==
    /\ caller = "evaluate"
    /\ pc = "harness_done"
    /\ harness = "returned_none"
    /\ result.error = "AssertionError"

\* C5: when the filtered table has no positive difference between
\* consecutive timestamps, the frequency loop ends and the call raises at
\* line 103; a call that returns had a positive difference.
C5_NoIntervalRaises ==
    /\ [](Returned => HasPositiveDiff(local))
    /\ [](((pc = "scan" /\ ~HasPositiveDiff(local)) =>
             <>(pc = "raised" /\ result.line = 103)))

C5_Witness ==
    /\ pc = "raised"
    /\ result.line = 103
    /\ n_rows >= 2
    /\ ~HasPositiveDiff(local)
    /\ index >= 1

\* C6: a returned training or testing table holds no missing value, and a
\* call that reaches the split with a missing value in the feature table
\* raises.
C6_NoMissingValuesReturned ==
    /\ Returned => (~HasNull(result.train) /\ ~HasNull(result.test))
    /\ (SplitDone /\ HasNull(local)) => result.kind = "raised"

C6_Witness ==
    /\ result.error = "AssertionError"
    /\ result.line = 140
    /\ HasNull(local)

C8_SecondCallSame ==
    (calls = 2 /\ result.kind # "none") => result = prev

C8_Witness ==
    /\ calls = 2
    /\ Returned
    /\ df # input
    /\ \E i \in 1..Len(input.data) : input.data[i]["sun_rise_set"] = NullStr
    /\ \E i \in 1..Len(df.data) : df.data[i]["sun_rise_set"] = "neither"

\* C9 (as stated): when the filtered table has a positive difference
\* between consecutive timestamps, the interval used is the first such
\* difference in position order.
C9_FirstPositiveDifference ==
    (result.kind # "none" /\ HasPositiveDiff(local)) =>
        (result.line # 103 /\ frequency = FirstPositiveDiff(local))

====
